---- MODULE Spec2Model ----
(***************************************************************************)
(* Model of the attestation-document verifier of src/src/lib.rs:           *)
(* NitroAdDoc::from_bytes (envelope, payload, field checks, certificate    *)
(* chain, envelope signature) and NitroAdDoc::to_json (the report).        *)
(*                                                                         *)
(* A behaviour is one verification call: the environment prepares the      *)
(* three inputs of from_bytes (document bytes, trust anchor, reference     *)
(* time) and the system clock, starting from a genuine document and        *)
(* changing at most MaxTamper things, then from_bytes runs, then to_json   *)
(* runs on the value from_bytes returned.                                  *)
(*                                                                         *)
(* The collaborators (COSE, CBOR, webpki, x509-parser, OpenSSL) are        *)
(* modelled by what they return at the call sites of lib.rs: a             *)
(* certificate is an entry of CertTable that records what each parser      *)
(* says about its DER bytes; a signature verifies exactly when it was      *)
(* made with the verifying key over the same protected header and payload. *)
(***************************************************************************)
EXTENDS Integers, Sequences, FiniteSets, TLC

VARIABLES
    doc,          \* bytes: the attestation document handed to from_bytes
    root_cert,    \* root_cert: the trust anchor handed to from_bytes
    unix_ts_sec,  \* unix_ts_sec: the reference time handed to from_bytes
    now,          \* what Utc::now() returns during the call
    tampers,      \* how many changes the environment made to the inputs
    result,       \* what the call of from_bytes ended with
    nitro_addoc,  \* the NitroAdDoc value from_bytes returned, if any
    json          \* what to_json returned for nitro_addoc

vars == <<doc, root_cert, unix_ts_sec, now, tampers, result, nitro_addoc, json>>

-----------------------------------------------------------------------------
(* Bounds of the model.                                                    *)

\* how many changes the environment makes to the genuine inputs
MaxTamper == 2
\* how many registers the genuine document carries (keys 0 .. NumPcrs-1)
NumPcrs == 3

-----------------------------------------------------------------------------
(* Time.  A DateTime<Utc> is seconds since the epoch plus milliseconds.    *)

SECS_PER_DAY == 86400

\* chrono's proleptic Gregorian calendar: days since 1970-01-01 of y-m-d
DaysFromCivil(y, m, d) ==
    LET yy  == IF m <= 2 THEN y - 1 ELSE y
        era == yy \div 400
        yoe == yy - era * 400
        mp  == IF m > 2 THEN m - 3 ELSE m + 9
        doy == (153 * mp + 2) \div 5 + d - 1
        doe == yoe * 365 + yoe \div 4 - yoe \div 100 + doy
    IN  era * 146097 + doe - 719468

\* the inverse: the y-m-d of a day number
CivilFromDays(z) ==
    LET zz  == z + 719468
        era == zz \div 146097
        doe == zz - era * 146097
        yoe == (doe - doe \div 1460 + doe \div 36524 - doe \div 146096) \div 365
        doy == doe - (365 * yoe + yoe \div 4 - yoe \div 100)
        mp  == (5 * doy + 2) \div 153
        d   == doy - (153 * mp + 2) \div 5 + 1
        m   == IF mp < 10 THEN mp + 3 ELSE mp - 9
        y   == yoe + era * 400
    IN  [year |-> IF m <= 2 THEN y + 1 ELSE y, month |-> m, day |-> d]

Time(s, m) == [sec |-> s, ms |-> m]

\* DateTime's ordering
TimeLT(a, b) == a.sec < b.sec \/ (a.sec = b.sec /\ a.ms < b.ms)

\* Utc.ymd(y, m, d).and_hms(hh, mm, ss)
YmdHms(y, m, d, hh, mm, ss) ==
    Time(DaysFromCivil(y, m, d) * SECS_PER_DAY + hh * 3600 + mm * 60 + ss, 0)

\* t + Duration::days(n)
PlusDays(t, n) == Time(t.sec + n * SECS_PER_DAY, t.ms)

-----------------------------------------------------------------------------
(* Certificates.  A DER blob is named by a key of CertTable; the entry     *)
(* holds what the parsers report about the blob.                           *)
(*   webpki    : what webpki's certificate parser returns ("ok" or error)  *)
(*   x509      : whether x509-parser's parse_x509_certificate returns Ok   *)
(*   rem_empty : whether that parse leaves no trailing bytes               *)
(*   version   : tbs_certificate.version                                   *)
(*   subject, issuer : the names; signer: the key that signed the blob     *)
(*   spki      : the subject public key; point_ok: whether its bytes are   *)
(*               a point of P-384 (EcPoint::from_bytes succeeds)           *)
(*   is_ca, not_before, not_after : basic constraints and validity         *)

Cert(w, x, r, v, sub, iss, sgn, k, p, ca, nb, na) ==
    [webpki |-> w, x509 |-> x, rem_empty |-> r, version |-> v,
     subject |-> sub, issuer |-> iss, signer |-> sgn, spki |-> k,
     point_ok |-> p, is_ca |-> ca, not_before |-> nb, not_after |-> na]

\* the validity window of the leaf of tests/data/nitro_ad_debug.bin:
\* notBefore=Mar 5 17:01:49 2021 GMT, notAfter=Mar 5 20:01:49 2021 GMT
EE_NOT_BEFORE == YmdHms(2021, 3, 5, 17, 1, 49).sec
EE_NOT_AFTER  == YmdHms(2021, 3, 5, 20, 1, 49).sec
CA_NOT_BEFORE == YmdHms(2019, 10, 28, 0, 0, 0).sec
CA_NOT_AFTER  == YmdHms(2030, 1, 1, 0, 0, 0).sec

CertTable ==
    [ \* the pinned root (tests/data/aws_root.der)
      aws_root    |-> Cert("ok", TRUE, TRUE, 3, "Root", "Root", "kRoot", "kRoot",
                           TRUE, TRUE, CA_NOT_BEFORE, CA_NOT_AFTER),
      \* the pinned root with one byte changed inside its key: still parses
      aws_root_ff |-> Cert("ok", TRUE, TRUE, 3, "Root", "Root", "kRoot", "kRootFF",
                           TRUE, TRUE, CA_NOT_BEFORE, CA_NOT_AFTER),
      \* bytes that are no certificate (a byte changed in the DER framing)
      garbage     |-> Cert("BadDER", FALSE, FALSE, 0, "", "", "", "",
                           FALSE, FALSE, 0, 0),
      \* the intermediate issued by the root
      interm      |-> Cert("ok", TRUE, TRUE, 3, "Interm", "Root", "kRoot", "kInterm",
                           TRUE, TRUE, CA_NOT_BEFORE, CA_NOT_AFTER),
      \* the enclave's leaf, issued by the intermediate
      leaf        |-> Cert("ok", TRUE, TRUE, 3, "Leaf", "Interm", "kInterm", "kLeaf",
                           TRUE, FALSE, EE_NOT_BEFORE, EE_NOT_AFTER),
      \* a version 1 leaf
      leaf_v1     |-> Cert("UnsupportedCertVersion", TRUE, TRUE, 1, "Leaf", "Interm",
                           "kInterm", "kLeafV1", TRUE, FALSE, EE_NOT_BEFORE, EE_NOT_AFTER),
      \* a leaf whose key is on another curve: no P-384 point
      leaf_p256   |-> Cert("ok", TRUE, TRUE, 3, "Leaf", "Interm", "kInterm", "kP256",
                           FALSE, FALSE, EE_NOT_BEFORE, EE_NOT_AFTER),
      \* a leaf with a critical extension webpki does not know
      leaf_crit   |-> Cert("UnsupportedCriticalExtension", TRUE, TRUE, 3, "Leaf", "Interm",
                           "kInterm", "kLeafCrit", TRUE, FALSE, EE_NOT_BEFORE, EE_NOT_AFTER),
      \* the leaf followed by trailing bytes
      leaf_trail  |-> Cert("BadDER", TRUE, FALSE, 3, "Leaf", "Interm", "kInterm", "kLeaf",
                           TRUE, FALSE, EE_NOT_BEFORE, EE_NOT_AFTER),
      \* an attacker's self-signed root claiming the root's name
      evil_root   |-> Cert("ok", TRUE, TRUE, 3, "Root", "Root", "kEvil", "kEvil",
                           TRUE, TRUE, CA_NOT_BEFORE, CA_NOT_AFTER),
      \* an attacker's leaf issued by that root; the attacker holds kAttacker
      evil_leaf   |-> Cert("ok", TRUE, TRUE, 3, "Leaf", "Root", "kEvil", "kAttacker",
                           TRUE, FALSE, EE_NOT_BEFORE, EE_NOT_AFTER) ]

CertNames == DOMAIN CertTable

\* the blobs the environment puts in the certificate field
LeafChoices == {"leaf", "leaf_v1", "leaf_p256", "leaf_crit", "leaf_trail",
                "evil_leaf", "garbage"}
\* the blobs the environment puts in cabundle
BundleChoices == {"aws_root", "interm", "evil_root", "garbage"}
\* the blobs the caller passes as trust anchor
AnchorChoices == {"aws_root", "aws_root_ff", "evil_root", "garbage"}

-----------------------------------------------------------------------------
(* The genuine inputs (tests/data/nitro_ad_debug.bin, aws_root.der).       *)

\* a byte string of length l: first byte h, every other byte b
Digest(l, h, b) == [len |-> l, head |-> h, fill |-> b]
Bytes(d) == [i \in 1 .. d.len |-> IF i = 1 THEN d.head ELSE d.fill]
None == [some |-> FALSE, val |-> <<>>]
Some(v) == [some |-> TRUE, val |-> v]

\* the debug document's registers: 48 zero bytes each
GenuinePcrs == [i \in 0 .. NumPcrs - 1 |-> Digest(48, 0, 0)]

GenuineTimestamp == Time(YmdHms(2021, 3, 5, 17, 58, 20).sec, 123)

GenuinePayload ==
    [cbor_ok     |-> TRUE,
     module_id   |-> "i-0f1e2d3c-enc0177",
     digest      |-> "SHA384",
     timestamp   |-> GenuineTimestamp,
     pcrs        |-> GenuinePcrs,
     certificate |-> "leaf",
     cabundle    |-> <<"aws_root", "interm">>,
     public_key  |-> None,
     user_data   |-> None,
     nonce       |-> None]

\* what a COSE_Sign1 signature covers: the protected header and the payload
SigStructure(protected, payload) == [protected |-> protected, payload |-> payload]

\* a signature made with private key k over (protected, payload)
Sign(k, protected, payload) == [key |-> k, over |-> SigStructure(protected, payload)]

GenuineDoc ==
    [cose_ok   |-> TRUE,
     protected |-> "ES384",
     payload   |-> GenuinePayload,
     signature |-> Sign("kLeaf", "ES384", GenuinePayload)]

\* Mar 5 18:00:00 2021 GMT, the reference time of the tests (1614967200)
GenuineRefTime == YmdHms(2021, 3, 5, 18, 0, 0).sec
\* the clock at the moment of the call: the caller passed the current time
GenuineNow == Time(GenuineRefTime, 0)

-----------------------------------------------------------------------------
(* Outcomes of a call.                                                     *)
(*   tag   : "Ok", "Err" (a NitroAdError returned), "Panic" (the thread    *)
(*           unwinds: an unwrap() of an Err or a slice index out of range) *)
(*   kind  : the NitroAdError variant                                      *)
(*   stage : the place of from_bytes where the call ended                  *)
(*   verify_err : the value of the local verify_err, "NotRun" when the     *)
(*           call ended before webpki's chain validation ran               *)

NotCalled == [tag |-> "NotCalled", kind |-> "", msg |-> "", stage |-> "",
              verify_err |-> "NotRun"]
Ok(ve) == [tag |-> "Ok", kind |-> "", msg |-> "", stage |-> "done", verify_err |-> ve]
Err(k, m, st, ve) == [tag |-> "Err", kind |-> k, msg |-> m, stage |-> st,
                      verify_err |-> ve]
Panic(m, st, ve) == [tag |-> "Panic", kind |-> "", msg |-> m, stage |-> st,
                     verify_err |-> ve]

\* the places of from_bytes where a call can end, in program order
StageOrder ==
    <<"cose", "cbor", "module_id", "digest", "timestamp", "pcrs_len", "pcr_item",
      "interm", "anchors", "ee_cert", "x509_parse", "rem", "version", "ec_point",
      "verify_signature", "signature", "done">>

StageIndex(st) == CHOOSE i \in 1 .. Len(StageOrder) : StageOrder[i] = st

-----------------------------------------------------------------------------
(* Field validation: lib.rs lines 154-195.                                 *)

PCR_LIMIT == 32
U8_MODULUS == 256

\* ad_parsed.module_id.len() > 0
module_id_ok(module_id) == module_id # ""

\* ad_parsed.digest == "SHA384"
digest_ok(digest) == digest = "SHA384"

\* Utc.ymd(2020, 1, 1).and_hms(0, 0, 0)
ts_start == YmdHms(2020, 1, 1, 0, 0, 0)

\* Utc::now() + Duration::days(1): now is the system clock
ts_end(clock) == PlusDays(clock, 1)

\* ad_parsed.timestamp > ts_start && ad_parsed.timestamp < ts_end
timestamp_ok(timestamp, clock) ==
    TimeLT(ts_start, timestamp) /\ TimeLT(timestamp, ts_end(clock))

\* ad_parsed.pcrs.len() as u8
pcrs_len(pcrs) == Cardinality(DOMAIN pcrs) % U8_MODULUS

\* a range check without its lower end
pcrs_len_ok_nolower(n) == n < PCR_LIMIT

\* (1..32).contains(&pcrs_len)
pcrs_len_ok(n) == 1 <= n /\ n < PCR_LIMIT

\* [32, 48, 64].contains(&pcr_len)
pcr_len_ok(l) == l \in {32, 48, 64}

\* the loop "for i in 0..pcrs_len" from index i on: the error of the first
\* register that is missing or has a wrong length, "" when there is none
RECURSIVE validate_pcr_items(_, _, _)
validate_pcr_items(pcrs, i, n) ==
    IF i >= n THEN ""
    ELSE IF i \notin DOMAIN pcrs THEN "PCR" \o ToString(i) \o " is missing"
    ELSE IF ~pcr_len_ok(pcrs[i].len)
         THEN "PCR" \o ToString(i) \o " len is other than 32/48/64 bytes"
    ELSE validate_pcr_items(pcrs, i + 1, n)

\* the field checks with the digest name looked at before module_id
validate_fields_digest_first(p, clock) ==
    IF ~digest_ok(p.digest)
        THEN [stage |-> "digest", msg |-> "digest signature is unknown"]
    ELSE IF ~module_id_ok(p.module_id)
        THEN [stage |-> "module_id", msg |-> "module_id is empty"]
    ELSE IF ~timestamp_ok(p.timestamp, clock)
        THEN [stage |-> "timestamp", msg |-> "timestamp field has wrong value"]
    ELSE IF ~pcrs_len_ok(pcrs_len(p.pcrs))
        THEN [stage |-> "pcrs_len", msg |-> "wrong number of PCRs in the map"]
    ELSE IF validate_pcr_items(p.pcrs, 0, pcrs_len(p.pcrs)) # ""
        THEN [stage |-> "pcr_item",
              msg |-> validate_pcr_items(p.pcrs, 0, pcrs_len(p.pcrs))]
    ELSE [stage |-> "", msg |-> ""]

\* the five checks in program order: the stage and message of the first one
\* that fails, stage "" when all pass
validate_fields(p, clock) ==
    IF ~module_id_ok(p.module_id)
        THEN [stage |-> "module_id", msg |-> "module_id is empty"]
    ELSE IF ~digest_ok(p.digest)
        THEN [stage |-> "digest", msg |-> "digest signature is unknown"]
    ELSE IF ~timestamp_ok(p.timestamp, clock)
        THEN [stage |-> "timestamp", msg |-> "timestamp field has wrong value"]
    ELSE IF ~pcrs_len_ok(pcrs_len(p.pcrs))
        THEN [stage |-> "pcrs_len", msg |-> "wrong number of PCRs in the map"]
    ELSE IF validate_pcr_items(p.pcrs, 0, pcrs_len(p.pcrs)) # ""
        THEN [stage |-> "pcr_item",
              msg |-> validate_pcr_items(p.pcrs, 0, pcrs_len(p.pcrs))]
    ELSE [stage |-> "", msg |-> ""]

-----------------------------------------------------------------------------
(* Chain validation: lib.rs lines 199-213, and what webpki returns there.  *)

\* a slice that also skips the first intermediate
interm_slice_skip2(cabundle) ==
    IF Len(cabundle) < 2 THEN <<>> ELSE Tail(Tail(cabundle))

\* &interm[1..]: defined only for a non-empty cabundle (else the index panics)
interm_slice(cabundle) == Tail(cabundle)

\* webpki::trust_anchor_util::cert_der_as_trust_anchor(root_cert)
trust_anchor_ok(rc) == CertTable[rc].webpki = "ok"

\* a trust-anchor set that also holds the root the document claims
anchors_of_with_claimed(rc, cabundle) == {rc, cabundle[1]}

\* the anchors webpki trusts: only the caller's root_cert
anchors_of(rc, cabundle) == {rc}

\* webpki's path building for cert c, used as CA when depth > 0: validity
\* at the reference time, the basic constraints, then an issuer among the
\* anchors or among the intermediates that itself chains up (the
\* certificates of the table carry no name constraints and no EKU)
RECURSIVE build_chain(_, _, _, _, _)
build_chain(c, interm, anchors, time, depth) ==
    LET cert == CertTable[c]
        via_anchor ==
            \E a \in anchors :
                /\ CertTable[a].subject = cert.issuer
                /\ CertTable[a].spki = cert.signer
        via_interm ==
            /\ depth < 6   \* webpki follows at most six sub-CAs
            /\ \E k \in 1 .. Len(interm) :
                  /\ CertTable[interm[k]].webpki = "ok"
                  /\ CertTable[interm[k]].subject = cert.issuer
                  /\ CertTable[interm[k]].spki = cert.signer
                  /\ build_chain(interm[k], interm, anchors, time, depth + 1) = "None"
    IN  IF time < cert.not_before THEN "CertNotValidYet"
        ELSE IF time > cert.not_after THEN "CertExpired"
        ELSE IF depth > 0 /\ ~cert.is_ca THEN "EndEntityUsedAsCA"
        ELSE IF depth = 0 /\ cert.is_ca THEN "CAUsedAsEndEntity"
        ELSE IF via_anchor \/ via_interm THEN "None"
        ELSE "UnknownIssuer"

\* cert.verify_is_valid_tls_server_cert(ALL_SIGALGS, &anchors, interm_slices, time).err()
verify_is_valid_tls_server_cert(ee, rc, cabundle, time) ==
    build_chain(ee, interm_slice(cabundle), anchors_of(rc, cabundle), time, 0)

-----------------------------------------------------------------------------
(* Signature: lib.rs lines 215-247.                                        *)

\* a verification that checks the key and not what was signed
verify_signature_keyonly(bytes, key) ==
    IF bytes.protected = "malformed" THEN "error"
    ELSE IF bytes.signature.key = key THEN "true"
    ELSE "false"

\* ad_doc_cose.verify_signature(&key): "error" when the protected header
\* names no usable algorithm, else whether the signature was made with key
\* over this protected header and payload
verify_signature(bytes, key) ==
    IF bytes.protected = "malformed" THEN "error"
    ELSE IF /\ bytes.signature.key = key
            /\ bytes.signature.over = SigStructure(bytes.protected, bytes.payload)
         THEN "true"
    ELSE "false"

\* lines 215-247: parse the leaf again, build the P-384 key, verify
signature_stage(bytes, ve) ==
    LET ee == CertTable[bytes.payload.certificate] IN
    IF ~ee.x509
        THEN Err("Error", "x509 parsing failed", "x509_parse", ve)
    ELSE IF ~ee.rem_empty
        THEN Err("Error", "rem isnot empty", "rem", ve)
    ELSE IF ee.version # 3
        THEN Err("Error", "wrong cert version", "version", ve)
    ELSE IF ~ee.point_ok
        THEN Panic("EcPoint::from_bytes(..).unwrap()", "ec_point", ve)
    ELSE IF verify_signature(bytes, ee.spki) = "error"
        THEN Err("COSEError", "verify_signature", "verify_signature", ve)
    ELSE IF verify_signature(bytes, ee.spki) = "false"
        THEN Err("COSEError", "UnimplementedError", "signature", ve)
    ELSE Ok(ve)

\* lines 199-213 followed by the signature stage
chain_stage(bytes, rc, ref_time) ==
    LET p == bytes.payload IN
    IF Len(p.cabundle) < 1
        THEN Panic("&interm[1..]", "interm", "NotRun")
    ELSE IF ~trust_anchor_ok(rc)
        THEN Panic("cert_der_as_trust_anchor(root_cert).unwrap()", "anchors", "NotRun")
    ELSE IF CertTable[p.certificate].webpki # "ok"
        THEN Err("VerificationError", CertTable[p.certificate].webpki, "ee_cert", "NotRun")
    ELSE signature_stage(bytes,
            verify_is_valid_tls_server_cert(p.certificate, rc, p.cabundle, ref_time))

\* NitroAdDoc::from_bytes(bytes, root_cert, unix_ts_sec), run while the
\* system clock reads clock
from_bytes(bytes, rc, ref_time, clock) ==
    \* COSESign1::from_bytes(bytes)?; get_payload(None) verifies nothing
    IF ~bytes.cose_ok
        THEN Err("COSEError", "COSESign1::from_bytes", "cose", "NotRun")
    ELSE IF ~bytes.payload.cbor_ok
        THEN Err("CBORError", "serde_cbor::from_slice", "cbor", "NotRun")
    ELSE IF validate_fields(bytes.payload, clock).stage # ""
        THEN Err("Error", validate_fields(bytes.payload, clock).msg,
                 validate_fields(bytes.payload, clock).stage, "NotRun")
    ELSE chain_stage(bytes, rc, ref_time)

-----------------------------------------------------------------------------
(* The report: lib.rs lines 255-308.                                       *)

HexDigits == <<"0", "1", "2", "3", "4", "5", "6", "7",
               "8", "9", "a", "b", "c", "d", "e", "f">>

\* hex::encode: two lowercase digits per byte, high nibble first
hex_encode(bytes) ==
    [i \in 1 .. 2 * Len(bytes) |->
        IF i % 2 = 1 THEN HexDigits[(bytes[(i + 1) \div 2] \div 16) + 1]
        ELSE HexDigits[(bytes[i \div 2] % 16) + 1]]

Base64Alphabet ==
    <<"A", "B", "C", "D", "E", "F", "G", "H", "I", "J", "K", "L", "M",
      "N", "O", "P", "Q", "R", "S", "T", "U", "V", "W", "X", "Y", "Z",
      "a", "b", "c", "d", "e", "f", "g", "h", "i", "j", "k", "l", "m",
      "n", "o", "p", "q", "r", "s", "t", "u", "v", "w", "x", "y", "z",
      "0", "1", "2", "3", "4", "5", "6", "7", "8", "9", "+", "/">>

\* base64::encode: the standard alphabet with padding
RECURSIVE base64_encode(_)
base64_encode(b) ==
    LET A(n) == Base64Alphabet[n + 1] IN
    IF Len(b) = 0 THEN <<>>
    ELSE IF Len(b) = 1
        THEN <<A(b[1] \div 4), A((b[1] % 4) * 16), "=", "=">>
    ELSE IF Len(b) = 2
        THEN <<A(b[1] \div 4), A((b[1] % 4) * 16 + b[2] \div 16),
               A((b[2] % 16) * 4), "=">>
    ELSE <<A(b[1] \div 4), A((b[1] % 4) * 16 + b[2] \div 16),
           A((b[2] % 16) * 4 + b[3] \div 64), A(b[3] % 64)>>
         \o base64_encode(SubSeq(b, 4, Len(b)))

\* Option::map(base64::encode)
option_base64(o) == IF o.some THEN Some(base64_encode(o.val)) ELSE None

\* DateTime<Utc>::to_string(): "YYYY-MM-DD HH:MM:SS[.mmm] UTC", as its fields
datetime_to_string(t) ==
    LET date == CivilFromDays(t.sec \div SECS_PER_DAY)
        sod  == t.sec % SECS_PER_DAY
    IN  [year |-> date.year, month |-> date.month, day |-> date.day,
         hour |-> sod \div 3600, minute |-> (sod % 3600) \div 60,
         second |-> sod % 60, ms |-> t.ms, zone |-> "UTC"]

\* pcrs_to_json: the object with key i.to_string() and value hex::encode(val)
\* for every entry of the map (a JSON object is its set of members)
pcrs_to_json(pcrs) ==
    {<<ToString(i), hex_encode(Bytes(pcrs[i]))>> : i \in DOMAIN pcrs}

\* X509Certificate::from_der(&der) succeeds
from_der_ok(der) == CertTable[der].x509

\* x509_to_json for a blob that parses
x509_to_json(der) ==
    [issuer   |-> CertTable[der].issuer,
     subject  |-> CertTable[der].subject,
     validity |-> [not_before |-> datetime_to_string(Time(CertTable[der].not_before, 0)),
                   not_after  |-> datetime_to_string(Time(CertTable[der].not_after, 0))]]

\* x509s_to_json: the cabundle in order, then the certificate; the first
\* blob that does not parse ends it with X509Error
x509s_to_json(cert, cabundle) ==
    LET ders == cabundle \o <<cert>> IN
    IF \E k \in 1 .. Len(ders) : ~from_der_ok(ders[k])
        THEN [tag |-> "Err", value |-> <<>>]
        ELSE [tag |-> "Ok", value |-> [k \in 1 .. Len(ders) |-> x509_to_json(ders[k])]]

NotReported == [tag |-> "NotCalled", kind |-> "", value |-> <<>>]

\* NitroAdDoc::to_json(&self)
to_json(self) ==
    LET p == self.payload_ref
        certs == x509s_to_json(p.certificate, p.cabundle)
    IN  IF certs.tag = "Err"
            THEN [tag |-> "Err", kind |-> "X509Error", value |-> <<>>]
        ELSE [tag |-> "Ok", kind |-> "",
              value |-> [module_id  |-> p.module_id,
                         digest     |-> p.digest,
                         timestamp  |-> datetime_to_string(p.timestamp),
                         pcrs       |-> pcrs_to_json(p.pcrs),
                         certs      |-> certs.value,
                         public_key |-> option_base64(p.public_key),
                         user_data  |-> option_base64(p.user_data),
                         nonce      |-> option_base64(p.nonce),
                         verification_error |->
                             IF self.verify_err = "None" THEN None
                             ELSE Some(self.verify_err)]]

-----------------------------------------------------------------------------
(* The environment: what a caller and a network attacker can hand in.      *)

NoDoc == [some |-> FALSE, payload_ref |-> GenuinePayload, verify_err |-> "NotRun"]

Init ==
    /\ doc = GenuineDoc
    /\ root_cert = "aws_root"
    /\ unix_ts_sec = GenuineRefTime
    /\ now = GenuineNow
    /\ tampers = 0
    /\ result = NotCalled
    /\ nitro_addoc = NoDoc
    /\ json = NotReported

CanTamper == result.tag = "NotCalled" /\ tampers < MaxTamper

\* one change of the document, leaving the call's other inputs alone
TamperDoc(d) ==
    /\ CanTamper
    /\ d # doc
    /\ doc' = d
    /\ tampers' = tampers + 1
    /\ UNCHANGED <<root_cert, unix_ts_sec, now, result, nitro_addoc, json>>

\* one change of the payload; the signature stays as it was
TamperPayload(p) == TamperDoc([doc EXCEPT !.payload = p])

\* a byte of the envelope framing changes
CorruptEnvelope == TamperDoc([doc EXCEPT !.cose_ok = FALSE])

\* a byte of the payload's CBOR framing changes
CorruptPayload == TamperPayload([doc.payload EXCEPT !.cbor_ok = FALSE])

\* a byte of the protected header changes
CorruptProtected ==
    \E h \in {"mutated", "malformed"} : TamperDoc([doc EXCEPT !.protected = h])

\* a byte of the signature changes: it verifies under no key
CorruptSignature == TamperDoc([doc EXCEPT !.signature.key = "none"])

\* the private keys somebody signs documents with: the enclave's and the
\* attacker's
SignerKeys == {"kLeaf", "kAttacker"}

\* a holder of a private key signs the document as it stands: the enclave
\* attests another payload, or the attacker signs a forged one
Resign ==
    \E k \in SignerKeys :
        TamperDoc([doc EXCEPT !.signature = Sign(k, doc.protected, doc.payload)])

SetModuleId ==
    \E m \in {"", "i-evil"} : TamperPayload([doc.payload EXCEPT !.module_id = m])

SetDigest ==
    \E d \in {"SHA256", "SHA512"} : TamperPayload([doc.payload EXCEPT !.digest = d])

TimestampChoices ==
    { Time(0, 0),
      ts_start, Time(ts_start.sec, 1),
      Time(GenuineNow.sec + SECS_PER_DAY - 1, 999),
      PlusDays(GenuineNow, 1) }

SetTimestamp ==
    \E t \in TimestampChoices : TamperPayload([doc.payload EXCEPT !.timestamp = t])

PcrCountChoices == {0, 1, PCR_LIMIT - 1, PCR_LIMIT, U8_MODULUS - 1, U8_MODULUS}

\* a document with registers 0 .. n-1
SetPcrCount ==
    \E n \in PcrCountChoices :
        TamperPayload([doc.payload EXCEPT !.pcrs = [i \in 0 .. n - 1 |-> Digest(48, 0, 0)]])

\* the registers the environment changes one at a time
SmallKeys == 0 .. NumPcrs + 1

RemovePcr ==
    \E k \in DOMAIN doc.payload.pcrs \cap SmallKeys :
        TamperPayload([doc.payload EXCEPT
            !.pcrs = [i \in DOMAIN doc.payload.pcrs \ {k} |-> doc.payload.pcrs[i]]])

AddPcr ==
    \E k \in (SmallKeys \cup {U8_MODULUS - 1}) \ DOMAIN doc.payload.pcrs :
        TamperPayload([doc.payload EXCEPT
            !.pcrs = [i \in DOMAIN doc.payload.pcrs \cup {k} |->
                        IF i = k THEN Digest(48, 0, 0) ELSE doc.payload.pcrs[i]]])

PcrLenChoices == {0, 32, 47, 64, 65}

SetPcrLen ==
    \E k \in DOMAIN doc.payload.pcrs \cap SmallKeys, l \in PcrLenChoices :
        TamperPayload([doc.payload EXCEPT !.pcrs[k].len = l])

\* one byte of a register changes (tests::test_broken_ad_pcrx)
FlipPcrByte ==
    \E k \in DOMAIN doc.payload.pcrs \cap SmallKeys :
        TamperPayload([doc.payload EXCEPT !.pcrs[k].head = 255])

SetCertificate ==
    \E c \in LeafChoices : TamperPayload([doc.payload EXCEPT !.certificate = c])

\* the producer omits the claimed root, or the attacker cuts it off
DropBundleHead ==
    /\ Len(doc.payload.cabundle) > 0
    /\ TamperPayload([doc.payload EXCEPT !.cabundle = Tail(doc.payload.cabundle)])

ReplaceBundleCert ==
    \E k \in 1 .. Len(doc.payload.cabundle), c \in BundleChoices :
        TamperPayload([doc.payload EXCEPT !.cabundle[k] = c])

OptionalChoices == {Some(<<255>>), Some(<<104, 105>>), Some(<<77, 97, 110, 33>>)}

SetOptional ==
    \E f \in {"public_key", "user_data", "nonce"}, v \in OptionalChoices :
        TamperPayload([doc.payload EXCEPT ![f] = v])

\* the caller passes another trust anchor
SetRootCert ==
    /\ CanTamper
    /\ \E c \in AnchorChoices \ {root_cert} : root_cert' = c
    /\ tampers' = tampers + 1
    /\ UNCHANGED <<doc, unix_ts_sec, now, result, nitro_addoc, json>>

\* the reference times of the tests, and one before the platform's launch
RefTimeChoices == {1500000000, 1614947200, 1614967200, 1618407754}

SetRefTime ==
    /\ CanTamper
    /\ \E t \in RefTimeChoices \ {unix_ts_sec} : unix_ts_sec' = t
    /\ tampers' = tampers + 1
    /\ UNCHANGED <<doc, root_cert, now, result, nitro_addoc, json>>

ClockChoices == {YmdHms(2019, 6, 1, 0, 0, 0), GenuineNow, YmdHms(2026, 1, 1, 0, 0, 0)}

\* the call happens at another moment
SetClock ==
    /\ CanTamper
    /\ \E t \in ClockChoices \ {now} : now' = t
    /\ tampers' = tampers + 1
    /\ UNCHANGED <<doc, root_cert, unix_ts_sec, result, nitro_addoc, json>>

\* the call NitroAdDoc::from_bytes(doc, root_cert, unix_ts_sec)
FromBytes ==
    /\ result.tag = "NotCalled"
    /\ result' = from_bytes(doc, root_cert, unix_ts_sec, now)
    /\ nitro_addoc' =
          IF result'.tag = "Ok"
          THEN [some |-> TRUE, payload_ref |-> doc.payload, verify_err |-> result'.verify_err]
          ELSE NoDoc
    /\ UNCHANGED <<doc, root_cert, unix_ts_sec, now, tampers, json>>

\* the call nitro_addoc.to_json() on the value from_bytes returned
ToJson ==
    /\ nitro_addoc.some
    /\ json.tag = "NotCalled"
    /\ json' = to_json(nitro_addoc)
    /\ UNCHANGED <<doc, root_cert, unix_ts_sec, now, tampers, result, nitro_addoc>>

Next ==
    \/ CorruptEnvelope \/ CorruptPayload \/ CorruptProtected \/ CorruptSignature
    \/ Resign
    \/ SetModuleId \/ SetDigest \/ SetTimestamp
    \/ SetPcrCount \/ RemovePcr \/ AddPcr \/ SetPcrLen \/ FlipPcrByte
    \/ SetCertificate \/ DropBundleHead \/ ReplaceBundleCert \/ SetOptional
    \/ SetRootCert \/ SetRefTime \/ SetClock
    \/ FromBytes \/ ToJson

Spec == Init /\ [][Next]_vars

-----------------------------------------------------------------------------
(* What the claims speak of, stated on the inputs of the call.             *)

Called == result.tag # "NotCalled"

\* the envelope and the payload decode
Decodes == doc.cose_ok /\ doc.payload.cbor_ok

Leaf == CertTable[doc.payload.certificate]

\* the leaf certificate parses as version 3 and carries a P-384 key
LeafUsable ==
    /\ Leaf.webpki = "ok" /\ Leaf.x509 /\ Leaf.rem_empty
    /\ Leaf.version = 3 /\ Leaf.point_ok

\* the envelope signature verifies against the key of the embedded leaf
SignatureMatches ==
    /\ Leaf.x509 /\ Leaf.point_ok
    /\ doc.protected # "malformed"
    /\ doc.signature = Sign(Leaf.spki, doc.protected, doc.payload)

\* the measurements are well-formed: keys {0..count-1}, 1 <= count < 32,
\* every digest 32, 48 or 64 bytes long
MeasurementsValid ==
    LET pcrs == doc.payload.pcrs
        count == Cardinality(DOMAIN pcrs)
    IN  /\ 1 <= count /\ count < 32
        /\ DOMAIN pcrs = 0 .. count - 1
        /\ \A i \in DOMAIN pcrs : pcrs[i].len \in {32, 48, 64}

\* the timestamp lies strictly between the floor and one day after t
TimestampWithin(t) ==
    /\ TimeLT(Time(1577836800, 0), doc.payload.timestamp)
    /\ TimeLT(doc.payload.timestamp, Time(t.sec + 86400, t.ms))

\* every field check of the code passes
FieldsValid ==
    /\ doc.payload.module_id # ""
    /\ doc.payload.digest = "SHA384"
    /\ TimestampWithin(now)
    /\ MeasurementsValid

\* the positions k >= 2 of cabundle whose certificate is a CA valid at the
\* reference time that chains up to the trust anchor, found bottom-up
RECURSIVE TrustedUpTo(_)
TrustedUpTo(n) ==
    LET b == doc.payload.cabundle
        usable(k) ==
            /\ CertTable[b[k]].webpki = "ok" /\ CertTable[b[k]].is_ca
            /\ CertTable[b[k]].not_before <= unix_ts_sec
            /\ unix_ts_sec <= CertTable[b[k]].not_after
        signed_by(c, i) == c.issuer = i.subject /\ c.signer = i.spki
    IN  IF n = 0
        THEN {k \in 2 .. Len(b) : usable(k) /\ signed_by(CertTable[b[k]], CertTable[root_cert])}
        ELSE TrustedUpTo(n - 1) \cup
             {k \in 2 .. Len(b) :
                 /\ usable(k)
                 /\ \E j \in TrustedUpTo(n - 1) : signed_by(CertTable[b[k]], CertTable[b[j]])}

\* the leaf is an end-entity certificate valid at the reference time, issued
\* by the caller's trust anchor or by an intermediate of cabundle[1:] that
\* chains to it
ChainsToAnchor ==
    /\ Len(doc.payload.cabundle) >= 1
    /\ CertTable[root_cert].webpki = "ok"
    /\ Leaf.webpki = "ok" /\ ~Leaf.is_ca
    /\ Leaf.not_before <= unix_ts_sec /\ unix_ts_sec <= Leaf.not_after
    /\ \/ Leaf.issuer = CertTable[root_cert].subject /\ Leaf.signer = CertTable[root_cert].spki
       \/ \E k \in TrustedUpTo(Len(doc.payload.cabundle)) :
             /\ Leaf.issuer = CertTable[doc.payload.cabundle[k]].subject
             /\ Leaf.signer = CertTable[doc.payload.cabundle[k]].spki

\* the error the code returns for a failed signature check
\* (COSEError; lib.rs line 238 notes it should be a signature error)
IsSignatureError(r) ==
    r.tag = "Err" /\ r.kind = "COSEError" /\ r.stage \in {"verify_signature", "signature"}

\* a field-level violation (NitroAdError::Error with the reason)
IsValidationError(r) ==
    /\ r.tag = "Err" /\ r.kind = "Error"
    /\ r.stage \in {"module_id", "digest", "timestamp", "pcrs_len", "pcr_item"}

-----------------------------------------------------------------------------
(* C1 *)

ReachesSignatureCheck ==
    /\ Decodes /\ FieldsValid
    /\ Len(doc.payload.cabundle) >= 1
    /\ CertTable[root_cert].webpki = "ok"
    /\ LeafUsable

-----------------------------------------------------------------------------
(* C2 *)

\* chain validation fails for one of the reasons the claim lists: the trust
\* anchor is not the root the chain ends in, or the reference time is
\* outside the leaf's validity window
ChainFailsAsClaimed ==
    \/ root_cert # "aws_root"
    \/ unix_ts_sec < Leaf.not_before
    \/ unix_ts_sec > Leaf.not_after

\* C2, as claimed: for a document with valid fields and a signature that
\* verifies, a failing chain validation never aborts the call: it returns
\* success with verification_error() = Some.
C2_ChainFailureIsSoft ==
    (Called /\ Decodes /\ FieldsValid /\ SignatureMatches /\ ChainFailsAsClaimed) =>
        /\ result.tag = "Ok"
        /\ result.verify_err # "None"

-----------------------------------------------------------------------------
(* C3 *)

\* C3: a well-formed document that passes the field checks, is signed by
\* the embedded leaf key and whose leaf chains through cabundle[1:] to the
\* trust anchor at the reference time yields success with
\* verification_error() = None.
C3_ValidDocumentVerifies ==
    (Called /\ Decodes /\ FieldsValid /\ SignatureMatches /\ ChainsToAnchor) =>
        /\ result.tag = "Ok"
        /\ result.verify_err = "None"
        /\ nitro_addoc.some /\ nitro_addoc.verify_err = "None"

\* C3 witness: a document other than the genuine one (produced and signed
\* by the enclave) verified with no chain error.
C3_Witness ==
    /\ Called /\ Decodes /\ FieldsValid /\ SignatureMatches /\ ChainsToAnchor
    /\ doc.payload # GenuinePayload
    /\ result.tag = "Ok" /\ result.verify_err = "None"

-----------------------------------------------------------------------------
(* C4 *)

\* the measurements map breaks one of the rules of the claim
MeasurementsBroken ==
    LET pcrs == doc.payload.pcrs
        count == Cardinality(DOMAIN pcrs)
    IN  \/ count = 0
        \/ count >= 32
        \/ \E i \in 0 .. count - 1 : i \notin DOMAIN pcrs
        \/ \E i \in (0 .. count - 1) \cap DOMAIN pcrs : pcrs[i].len \notin {32, 48, 64}

\* C4: a decoded document whose measurements map has 0 or >= 32 entries, a
\* gap below its count, or a digest of a length other than 32, 48, 64 gets
\* a ValidationError; on success the keys are exactly {0..count-1},
\* 1 <= count < 32, and every digest length is 32, 48 or 64.
C4_MeasurementsEnforced ==
    /\ (Called /\ Decodes /\ MeasurementsBroken) => IsValidationError(result)
    /\ nitro_addoc.some =>
          LET pcrs == nitro_addoc.payload_ref.pcrs
              count == Cardinality(DOMAIN pcrs)
          IN  /\ DOMAIN pcrs = 0 .. count - 1
              /\ 1 <= count /\ count < 32
              /\ \A i \in DOMAIN pcrs : pcrs[i].len \in {32, 48, 64}

\* C4 witness: a map with all 256 keys (its length does not fit a u8) was
\* rejected for its count.
C4_Witness ==
    /\ Called /\ Decodes
    /\ Cardinality(DOMAIN doc.payload.pcrs) = 256
    /\ IsValidationError(result)
    /\ result.msg = "wrong number of PCRs in the map"

-----------------------------------------------------------------------------
(* C5 *)

\* the checks before the timestamp check pass
ReachesTimestampCheck ==
    Decodes /\ doc.payload.module_id # "" /\ doc.payload.digest = "SHA384"

\* C5, as claimed: the timestamp check accepts exactly when the timestamp is
\* strictly after 2020-01-01T00:00:00Z and strictly before the caller's
\* reference time plus one day.
C5_TimestampAgainstCallerTime ==
    (Called /\ ReachesTimestampCheck) =>
        ((result.stage # "timestamp") <=> TimestampWithin(Time(unix_ts_sec, 0)))

-----------------------------------------------------------------------------
(* C6 *)

HexValue(ch) == CHOOSE v \in 0 .. 15 : HexDigits[v + 1] = ch

\* reading a hex string back into bytes
hex_decode(h) ==
    [i \in 1 .. Len(h) \div 2 |-> 16 * HexValue(h[2 * i - 1]) + HexValue(h[2 * i])]

\* reading the display string of a timestamp back
string_to_datetime(r) ==
    Time(DaysFromCivil(r.year, r.month, r.day) * 86400
            + r.hour * 3600 + r.minute * 60 + r.second, r.ms)

\* the report's fields, read back, are those of the verified record
ReportMatchesRecord(v, p) ==
    /\ v.module_id = p.module_id
    /\ v.digest = p.digest
    /\ string_to_datetime(v.timestamp) = p.timestamp
    /\ Cardinality(v.pcrs) = Cardinality(DOMAIN p.pcrs)
    /\ \A i \in DOMAIN p.pcrs :
          \E m \in v.pcrs : m[1] = ToString(i) /\ hex_decode(m[2]) = Bytes(p.pcrs[i])

\* C6, as claimed: for every document from_bytes accepted, to_json returns
\* Ok with module_id, digest, timestamp and hex measurements equal to the
\* verified record's.
C6_ReportNeverFails ==
    (nitro_addoc.some /\ json.tag # "NotCalled") =>
        /\ json.tag = "Ok"
        /\ ReportMatchesRecord(json.value, nitro_addoc.payload_ref)

-----------------------------------------------------------------------------
(* C7 *)

\* C7, as claimed: every call ends with a success value or a NitroAdError.
C7_NoPanic == Called => result.tag \in {"Ok", "Err"}

-----------------------------------------------------------------------------
(* C8 *)

\* the checks in the order of the claim, each with the reason of its error
ClaimedChecks ==
    LET p == doc.payload
        count == Cardinality(DOMAIN p.pcrs)
        fixed ==
            << [bad |-> p.module_id = "", reason |-> "module_id is empty"],
               [bad |-> p.digest # "SHA384", reason |-> "digest signature is unknown"],
               [bad |-> ~TimestampWithin(now), reason |-> "timestamp field has wrong value"],
               [bad |-> ~(1 <= count /\ count < 32),
                reason |-> "wrong number of PCRs in the map"] >>
        items ==
            [j \in 1 .. 2 * count |->
                LET i == (j - 1) \div 2 IN
                IF j % 2 = 1
                THEN [bad |-> i \notin DOMAIN p.pcrs,
                      reason |-> "PCR" \o ToString(i) \o " is missing"]
                ELSE [bad |-> i \in DOMAIN p.pcrs /\ p.pcrs[i].len \notin {32, 48, 64},
                      reason |-> "PCR" \o ToString(i) \o " len is other than 32/48/64 bytes"]]
    IN  IF 1 <= count /\ count < 32 THEN fixed \o items ELSE fixed

FirstViolated ==
    LET bad == {j \in 1 .. Len(ClaimedChecks) : ClaimedChecks[j].bad}
    IN  IF bad = {} THEN 0 ELSE CHOOSE j \in bad : \A k \in bad : j <= k

\* C8: for a decoded document that violates field checks, the error is the
\* ValidationError of the first violated check in the order module_id,
\* digest, timestamp, count, then per index presence and length, and
\* neither the chain stage nor the signature stage has run.
C8_FailFastInOrder ==
    (Called /\ Decodes /\ FirstViolated # 0) =>
        /\ IsValidationError(result)
        /\ result.msg = ClaimedChecks[FirstViolated].reason
        /\ result.verify_err = "NotRun"
        /\ StageIndex(result.stage) < StageIndex("interm")
        /\ ~nitro_addoc.some

\* C8 witness: a document violating two checks got the error of the
\* earlier one.
C8_Witness ==
    /\ Called /\ Decodes
    /\ Cardinality({j \in 1 .. Len(ClaimedChecks) : ClaimedChecks[j].bad}) >= 2
    /\ doc.payload.digest # "SHA384" /\ ~MeasurementsValid
    /\ result.msg = "digest signature is unknown"

-----------------------------------------------------------------------------
(* C9 *)

\* the document with the first element of cabundle replaced by c
WithClaimedRoot(c) == [doc EXCEPT !.payload.cabundle[1] = c]

\* C9: the chain result recorded depends on the leaf, cabundle[1:], the
\* caller's trust anchor and the reference time only: replacing cabundle[0]
\* by any certificate gives the same chain result, and a chain is recorded
\* as trusted only when the leaf chains to the caller's anchor.
C9_ClaimedRootIgnored ==
    (Called /\ result.verify_err # "NotRun") =>
        /\ \A c \in CertNames :
              from_bytes(WithClaimedRoot(c), root_cert, unix_ts_sec, now).verify_err
                  = result.verify_err
        /\ result.verify_err = "None" => ChainsToAnchor

\* C9 witness: the chain was found trusted although the claimed root in
\* cabundle[0] is not the caller's anchor.
C9_Witness ==
    /\ Called /\ result.verify_err = "None"
    /\ doc.payload.cabundle[1] # root_cert
    /\ Len(doc.payload.cabundle) >= 2

-----------------------------------------------------------------------------
(* C10 *)

\* the leaf cannot be parsed, is not version 3, or its key is no P-384 point
LeafRejected == ~Leaf.x509 \/ Leaf.version # 3 \/ ~Leaf.point_ok

\* C10, as claimed: when the stages before the leaf is looked at pass, a
\* leaf that cannot be parsed, is not version 3 or has no valid P-384 key
\* makes the call fail with X509Error.
C10_LeafRejectedAsX509Error ==
    (/\ Called /\ Decodes /\ FieldsValid
     /\ Len(doc.payload.cabundle) >= 1 /\ CertTable[root_cert].webpki = "ok"
     /\ LeafRejected) =>
        result.tag = "Err" /\ result.kind = "X509Error"

====
